---- MODULE Spec2Model ----
(***************************************************************************)
(* A model of ejmejm/RL-Representation:                                    *)
(*   - ExperienceBufferMixin (agents/base.py): append_data, extend_data,   *)
(*     _fix_size and sample;                                               *)
(*   - the observation-shape driven factories of rl_cookbook/models/base.py*)
(*     (get_hidden_size_from_obs_dim, create_encoder_from_obs_dim,         *)
(*     create_decoder_from_obs_dim), the shape arithmetic of the layer     *)
(*     stacks they build, and StatePredictionModel;                        *)
(*   - the final layers of DDDQNNetwork and its forward pass.              *)
(* Three specifications share the variables: SpecBuffer, SpecModels and    *)
(* SpecDDDQN.  Each leaves the variables of the other two untouched.       *)
(***************************************************************************)
EXTENDS Integers, Sequences, FiniteSets

VARIABLES
  max_size,     \* ExperienceBufferMixin.max_size
  buffer,       \* ExperienceBufferMixin.buffer (a Python list, oldest first)
  inserted,     \* history: every item handed to append_data/extend_data, in order
  sample_ret,   \* outcome of the last sample() call since the last insertion
  obs_dim,      \* the observation shape given to the factories / constructors
  call,         \* which function of models/base.py was called on obs_dim
  ret,          \* what that call returned or raised
  model,        \* the StatePredictionModel object, once constructed
  out,          \* outcome of the last StatePredictionModel.forward
  net,          \* the DDDQNNetwork object: sizes and final-layer parameters
  qs_ret        \* outcome of the last DDDQNNetwork.forward

vars == <<max_size, buffer, inserted, sample_ret,
          obs_dim, call, ret, model, out, net, qs_ret>>

bufferVars == <<max_size, buffer, inserted, sample_ret>>
modelVars  == <<obs_dim, call, ret, model, out>>
dqnVars    == <<net, qs_ret>>

Min(a, b) == IF a <= b THEN a ELSE b
Max(a, b) == IF a >= b THEN a ELSE b
Abs(a)    == IF a >= 0 THEN a ELSE -a

RECURSIVE SeqSum(_)
SeqSum(s) == IF s = <<>> THEN 0 ELSE Head(s) + SeqSum(Tail(s))

RECURSIVE SeqProd(_)
SeqProd(s) == IF s = <<>> THEN 1 ELSE Head(s) * SeqProd(Tail(s))

(***************************************************************************)
(*                    ExperienceBufferMixin                                *)
(***************************************************************************)

\* Bounds of the buffer model.
MaxSize     == 3   \* max_size ranges over 0..MaxSize
MaxInserted == 5   \* total number of items handed to the buffer
MaxBatch    == 3   \* longest list given to extend_data
MaxN        == 3   \* largest n given to sample
Arity       == 2   \* number of fields of a transition record

\* The k-th transition record handed to the buffer.  The buffer code never
\* inspects a record, so records are labelled by their insertion number; the
\* fields of a record are distinct so that sample's per-field split shows.
TransitionData(k) == [j \in 1..Arity |-> 10 * k + j]

\* Python's lst[start:] for any integer start.
PySliceFrom(lst, start) ==
  LET n  == Len(lst)
      lo == IF start < 0 THEN Max(start + n, 0) ELSE Min(start, n)
  IN  SubSeq(lst, lo + 1, n)

\* Mutant of _fix_size: keeps the head of the list, buffer[:max_size].
_fix_size_keep_head(buf, ms) == SubSeq(buf, 1, Min(ms, Len(buf)))

\* self.buffer = self.buffer[-self.max_size:]
_fix_size(buf, ms) == PySliceFrom(buf, -ms)

\* No call made yet.
None == [status |-> "none"]

\* self.buffer.append(data); self._fix_size()
append_data(data) ==
  /\ Len(inserted) < MaxInserted
  /\ buffer' = _fix_size(Append(buffer, data), max_size)
  /\ inserted' = Append(inserted, data)
  /\ sample_ret' = None
  /\ UNCHANGED max_size

\* self.buffer.extend(data); self._fix_size()
extend_data(data) ==
  /\ Len(inserted) + Len(data) <= MaxInserted
  /\ buffer' = _fix_size(buffer \o data, max_size)
  /\ inserted' = inserted \o data
  /\ sample_ret' = None
  /\ UNCHANGED max_size

\* np.random.choice(range(len_), size=n, replace=replace): the set of outcomes.
\* A ValueError when the population is empty and n > 0, or when n exceeds the
\* population without replacement; otherwise every length-n sequence of
\* 0-based indices, pairwise distinct when replace is False.
np_random_choice(len_, n, replace) ==
  IF (len_ = 0 /\ n > 0) \/ (~replace /\ n > len_)
  THEN {[status |-> "ValueError"]}
  ELSE {[status |-> "ok", idxs |-> s] :
          s \in {t \in [1..n -> 0..(len_ - 1)] :
                   replace \/ \A i, j \in 1..n : i # j => t[i] # t[j]}}

\* batch_data = np.array([buffer[i] for i in data_idxs]);
\* [np.stack(batch_data[:, i]) for i in range(batch_data.shape[1])]
\* An empty batch is a 1-D array: batch_data.shape[1] raises IndexError.
element_tensors(buf, data_idxs) ==
  IF Len(data_idxs) = 0
  THEN [status |-> "IndexError"]
  ELSE [status |-> "ok",
        tensors |-> [f \in 1..Arity |->
                       [r \in 1..Len(data_idxs) |-> buf[data_idxs[r] + 1][f]]]]

\* What sample leaves behind for a given outcome of the draw.
SampleOutcome(n, replace, before, draw) ==
  IF draw.status # "ok"
  THEN [status |-> draw.status, n |-> n, replace |-> replace, before |-> before]
  ELSE LET et == element_tensors(before, draw.idxs)
       IN  IF et.status # "ok"
           THEN [status |-> et.status, n |-> n, replace |-> replace, before |-> before]
           ELSE [status |-> "ok", n |-> n, replace |-> replace, before |-> before,
                 data_idxs |-> draw.idxs, tensors |-> et.tensors]

\* Mutant of sample: the replace argument is not passed on to the draw.
sample_ignores_replace(n, replace) ==
  /\ \E draw \in np_random_choice(Len(buffer), n, TRUE) :
       sample_ret' = SampleOutcome(n, replace, buffer, draw)
  /\ UNCHANGED <<max_size, buffer, inserted>>

\* ExperienceBufferMixin.sample(n, replace)
sample(n, replace) ==
  /\ \E draw \in np_random_choice(Len(buffer), n, replace) :
       sample_ret' = SampleOutcome(n, replace, buffer, draw)
  /\ UNCHANGED <<max_size, buffer, inserted>>

\* The next m records the environment produces.
NextRecords(m) == [i \in 1..m |-> TransitionData(Len(inserted) + i)]

AppendStep == append_data(TransitionData(Len(inserted) + 1)) /\ UNCHANGED <<modelVars, dqnVars>>
ExtendStep == (\E m \in 0..MaxBatch : extend_data(NextRecords(m))) /\ UNCHANGED <<modelVars, dqnVars>>
SampleStep == (\E n \in 0..MaxN, replace \in BOOLEAN : sample(n, replace)) /\ UNCHANGED <<modelVars, dqnVars>>

ModelIdle == obs_dim = <<>> /\ call = "none" /\ ret = None /\ model = None /\ out = None
DqnIdle   == net = None /\ qs_ret = None

\* ExperienceBufferMixin.__init__(max_size)
InitBuffer ==
  /\ max_size \in 0..MaxSize
  /\ buffer = <<>>
  /\ inserted = <<>>
  /\ sample_ret = None
  /\ ModelIdle
  /\ DqnIdle

NextBuffer == AppendStep \/ ExtendStep \/ SampleStep

SpecBuffer == InitBuffer /\ [][NextBuffer]_vars

\* C1: with max_size >= 1, after every append_data / extend_data the buffer is
\* the last min(k, max_size) items of everything inserted so far, in insertion
\* order (k = number of items inserted): the oldest are evicted first.
C1_KeepMostRecent ==
  max_size >= 1 =>
    LET k    == Len(inserted)
        keep == Min(k, max_size)
    IN  buffer = SubSeq(inserted, k - keep + 1, k)

\* max_size = 3 and five records appended: the buffer holds records 3, 4, 5.
C1_Witness ==
  /\ max_size = 3
  /\ Len(inserted) = 5
  /\ buffer = <<TransitionData(3), TransitionData(4), TransitionData(5)>>

\* C2: for every non-negative max_size, len(buffer) <= max_size after every
\* append_data / extend_data.
C2_SizeCap == Len(buffer) <= max_size

Distinct(s) == \A i, j \in 1..Len(s) : i # j => s[i] # s[j]

\* C3: sample(n, replace=False) fails whenever n > len(buffer); for
\* 1 <= n <= len(buffer) it succeeds with n pairwise-distinct indices of the
\* buffer and returns, per field, the values of the records at these indices;
\* either way the buffer is what it was before the call.
C3_SampleWithoutReplacement ==
  (sample_ret.status # "none" /\ ~sample_ret.replace) =>
    /\ buffer = sample_ret.before
    /\ sample_ret.n > Len(buffer) => sample_ret.status = "ValueError"
    /\ (1 <= sample_ret.n /\ sample_ret.n <= Len(buffer)) =>
         /\ sample_ret.status = "ok"
         /\ Len(sample_ret.data_idxs) = sample_ret.n
         /\ Distinct(sample_ret.data_idxs)
         /\ \A r \in 1..sample_ret.n : sample_ret.data_idxs[r] \in 0..(Len(buffer) - 1)
         /\ Len(sample_ret.tensors) = Arity
         /\ \A f \in 1..Arity, r \in 1..sample_ret.n :
              sample_ret.tensors[f][r] = buffer[sample_ret.data_idxs[r] + 1][f]

\* A successful draw of 2 distinct records from a buffer of 3.
C3_WitnessOk ==
  /\ sample_ret.status = "ok"
  /\ ~sample_ret.replace
  /\ sample_ret.n = 2
  /\ Len(buffer) = 3

(***************************************************************************)
(*          rl_cookbook/models/base.py: layers and factories               *)
(***************************************************************************)

\* Bounds of the factory model.
MaxRank      == 3   \* longest observation shape
MaxActs      == 2   \* largest n_acts, and widest action vector fed to forward
MaxBatchSize == 2   \* largest batch size fed to forward

\* Sizes an observation dimension is drawn from: the thresholds of the
\* classifier (32, 33), of the two convolution stacks (7, 8 and 24, 25), and
\* the sizes of the environments (1x16x16 gridworld, 4x84x84 Atari, 1x20x20).
Dims == {1, 4, 7, 8, 16, 20, 24, 25, 32, 33, 84}

Shapes == UNION {[1..r -> Dims] : r \in 1..MaxRank}

\* A call that returned normally / raised.
Ok(v)        == [status |-> "ok", val |-> v]
Raise(exc)   == [status |-> exc]

\* Layers of torch.nn, as far as tensor shapes go.
Layer(kind, cin, cout, k, s, p, shape) ==
  [kind |-> kind, cin |-> cin, cout |-> cout, k |-> k, s |-> s, p |-> p, shape |-> shape]
Conv2d(cin, cout, k, s, p)          == Layer("Conv2d", cin, cout, k, s, p, <<>>)
ConvTranspose2d(cin, cout, k, s, p) == Layer("ConvTranspose2d", cin, cout, k, s, p, <<>>)
Linear(cin, cout)                   == Layer("Linear", cin, cout, 0, 0, 0, <<>>)
ReLU                                == Layer("ReLU", 0, 0, 0, 0, 0, <<>>)
Flatten                             == Layer("Flatten", 0, 0, 0, 0, 0, <<>>)
\* ReshapeLayer.forward: x.view(batch_size, *self.shape)
ReshapeLayer(shape)                 == Layer("ReshapeLayer", 0, 0, 0, 0, 0, shape)

\* Output size of one spatial dimension of nn.Conv2d.
conv2d_out(n, k, s, p) == ((n + 2 * p - k) \div s) + 1
\* Output size of one spatial dimension of nn.ConvTranspose2d.
conv_transpose_out(n, k, s, p) == (n - 1) * s - 2 * p + k

\* The shape a layer produces for an input of shape x (batch dimension
\* first), or the RuntimeError torch raises on a shape it cannot consume.
apply_layer(l, x) ==
  LET r == Len(x) IN
  CASE l.kind = "ReLU" -> Ok(x)
    [] l.kind = "Flatten" ->
         IF r < 2 THEN Ok(x) ELSE Ok(<<x[1], SeqProd(SubSeq(x, 2, r))>>)
    [] l.kind = "Linear" ->
         IF r >= 1 /\ x[r] = l.cin
         THEN Ok([i \in 1..r |-> IF i = r THEN l.cout ELSE x[i]])
         ELSE Raise("RuntimeError")
    [] l.kind = "Conv2d" ->
         IF /\ r \in {3, 4}
            /\ x[r - 2] = l.cin
            /\ x[r - 1] + 2 * l.p >= l.k
            /\ x[r] + 2 * l.p >= l.k
         THEN Ok([i \in 1..r |->
                    IF i = r - 2 THEN l.cout
                    ELSE IF i >= r - 1 THEN conv2d_out(x[i], l.k, l.s, l.p)
                    ELSE x[i]])
         ELSE Raise("RuntimeError")
    [] l.kind = "ConvTranspose2d" ->
         IF /\ r \in {3, 4}
            /\ x[r - 2] = l.cin
         THEN Ok([i \in 1..r |->
                    IF i = r - 2 THEN l.cout
                    ELSE IF i >= r - 1 THEN conv_transpose_out(x[i], l.k, l.s, l.p)
                    ELSE x[i]])
         ELSE Raise("RuntimeError")
    [] l.kind = "ReshapeLayer" ->
         IF r >= 1 /\ SeqProd(x) = x[1] * SeqProd(l.shape)
         THEN Ok(<<x[1]>> \o l.shape)
         ELSE Raise("RuntimeError")

\* nn.Sequential.forward on shapes.
RECURSIVE sequential(_, _)
sequential(layers, x) ==
  IF layers = <<>> THEN Ok(x)
  ELSE LET y == apply_layer(Head(layers), x)
       IN  IF y.status # "ok" THEN y ELSE sequential(Tail(layers), y.val)

\* A network: the factory that built it and its layers.
Net(factory, layers) == [factory |-> factory, layers |-> layers]

create_simple_1D_encoder(input_dim) ==
  LET flat_dim == input_dim[1] * input_dim[2]
  IN  Net("create_simple_1D_encoder",
          <<Flatten, Linear(flat_dim, 16), ReLU, Linear(16, 32), ReLU>>)

create_simple_1D_decoder(input_dim) ==
  IF Len(input_dim) < 2
  THEN Raise("IndexError")
  ELSE LET flat_dim == input_dim[1] * input_dim[2]
       IN  Ok(Net("create_simple_1D_decoder",
                  <<Linear(32, 16), ReLU, Linear(16, flat_dim), ReshapeLayer(input_dim)>>))

\* Mutant of create_gridworld_encoder: the second convolution has 8 output
\* channels instead of 16.
create_gridworld_encoder_8ch(n_channels) ==
  Net("create_gridworld_encoder",
      <<Conv2d(n_channels, 8, 4, 2, 0), ReLU, Conv2d(8, 8, 3, 1, 0), ReLU>>)

create_gridworld_encoder(n_channels) ==
  Net("create_gridworld_encoder",
      <<Conv2d(n_channels, 8, 4, 2, 0), ReLU, Conv2d(8, 16, 3, 1, 0), ReLU>>)

create_gridworld_decoder(n_channels) ==
  Net("create_gridworld_decoder",
      <<ConvTranspose2d(16, 8, 3, 1, 0), ReLU,
        ConvTranspose2d(8, n_channels, 4, 2, 0),
        Conv2d(n_channels, n_channels, 3, 1, 1)>>)

create_atari_encoder(n_channels) ==
  Net("create_atari_encoder",
      <<Conv2d(n_channels, 32, 5, 5, 0), ReLU, Conv2d(32, 64, 5, 5, 0), ReLU>>)

create_atari_decoder(n_channels) ==
  Net("create_atari_decoder",
      <<ConvTranspose2d(64, 32, 5, 5, 0), ReLU,
        ConvTranspose2d(32, n_channels, 5, 5, 0), ReLU,
        Conv2d(n_channels, n_channels, 3, 1, 1)>>)

GYM_HIDDEN_SIZE       == 32
GRIDWORLD_HIDDEN_SIZE == 64
ATARI_HIDDEN_SIZE     == 256

\* Mutant of get_hidden_size_from_obs_dim: the flat test is < 32.
get_hidden_size_strict(d) ==
  IF Len(d) = 2
  THEN IF d[1] < 32 THEN Ok(GYM_HIDDEN_SIZE) ELSE Raise("Exception")
  ELSE IF Len(d) < 2 THEN Raise("IndexError")
  ELSE IF d[2] <= 32 THEN Ok(GRIDWORLD_HIDDEN_SIZE)
  ELSE Ok(ATARI_HIDDEN_SIZE)

\* obs_dim[1] on a sequence of length 1 raises IndexError; the Exception is
\* '1D observation dimensions this large are not supported!'.
get_hidden_size_from_obs_dim(d) ==
  IF Len(d) = 2
  THEN IF d[1] <= 32 THEN Ok(GYM_HIDDEN_SIZE) ELSE Raise("Exception")
  ELSE IF Len(d) < 2 THEN Raise("IndexError")
  ELSE IF d[2] <= 32 THEN Ok(GRIDWORLD_HIDDEN_SIZE)
  ELSE Ok(ATARI_HIDDEN_SIZE)

create_encoder_from_obs_dim(d) ==
  IF Len(d) = 2
  THEN IF d[1] <= 32 THEN Ok(create_simple_1D_encoder(d)) ELSE Raise("Exception")
  ELSE IF Len(d) < 2 THEN Raise("IndexError")
  ELSE IF d[2] <= 32 THEN Ok(create_gridworld_encoder(d[1]))
  ELSE Ok(create_atari_encoder(d[1]))

create_decoder_from_obs_dim(d) ==
  IF Len(d) = 1
  THEN IF d[1] <= 32 THEN create_simple_1D_decoder(d) ELSE Raise("Exception")
  ELSE IF Len(d) < 2 THEN Raise("IndexError")
  ELSE IF d[2] <= 32 THEN Ok(create_gridworld_decoder(d[1]))
  ELSE Ok(create_atari_decoder(d[1]))

\* encoder(torch.zeros(1, *obs_dim)).view(-1).shape[0]
encoder_output_size(encoder, d) ==
  LET y == sequential(encoder.layers, <<1>> \o d)
  IN  IF y.status # "ok" THEN y ELSE Ok(SeqProd(y.val))

\* PolicyNetwork.__init__(obs_dim, n_acts) with the default encoder and
\* hidden size: what the constructor computes, or the exception it raises.
PolicyNetwork_init(d, n_acts) ==
  LET enc == create_encoder_from_obs_dim(d) IN
  IF enc.status # "ok" THEN enc
  ELSE LET size == encoder_output_size(enc.val, d) IN
       IF size.status # "ok" THEN size
       ELSE LET hidden == get_hidden_size_from_obs_dim(d) IN
            IF hidden.status # "ok" THEN hidden
            ELSE [status |-> "ok",
                  encoder |-> enc.val.factory,
                  encoder_output_size |-> size.val,
                  layers |-> enc.val.layers \o
                             <<Flatten, Linear(size.val, hidden.val), ReLU,
                               Linear(hidden.val, n_acts)>>]

\* StatePredictionModel.__init__(obs_dim, n_acts) with the default hidden
\* size: the object it builds, or the exception it raises.
StatePredictionModel_init(d, n_acts) ==
  LET enc == create_encoder_from_obs_dim(d) IN
  IF enc.status # "ok" THEN enc
  ELSE LET output_dim == encoder_output_size(enc.val, d) IN
       IF output_dim.status # "ok" THEN output_dim
       ELSE LET hidden == get_hidden_size_from_obs_dim(d) IN
            IF hidden.status # "ok" THEN hidden
            ELSE LET dec == create_decoder_from_obs_dim(d) IN
                 IF dec.status # "ok" THEN dec
                 ELSE [status |-> "ok",
                       n_acts |-> n_acts,
                       downsample_convs |-> enc.val,
                       fc |-> <<Linear(output_dim.val + n_acts, hidden.val), ReLU,
                                Linear(hidden.val, hidden.val), ReLU,
                                Linear(hidden.val, output_dim.val), ReLU>>,
                       upsample_convs |-> dec.val]

\* torch.cat([z, acts], dim=1) on shapes.
torch_cat_dim1(z, acts) ==
  IF Len(z) = 2 /\ Len(acts) = 2 /\ z[1] = acts[1]
  THEN Ok(<<z[1], z[2] + acts[2]>>)
  ELSE Raise("RuntimeError")

\* StatePredictionModel.forward(obs, acts) on shapes: the shape of the
\* predicted observation, or the RuntimeError of the layer that rejects its
\* input.
StatePredictionModel_forward(m, obs, acts) ==
  LET conv_out == sequential(m.downsample_convs.layers, obs) IN
  IF conv_out.status # "ok" THEN conv_out
  ELSE LET z == torch_cat_dim1(<<obs[1], SeqProd(conv_out.val) \div obs[1]>>, acts) IN
       IF z.status # "ok" THEN z
       ELSE LET h == sequential(m.fc, z.val) IN
            IF h.status # "ok" THEN h
            ELSE IF SeqProd(h.val) # SeqProd(conv_out.val) THEN Raise("RuntimeError")
            ELSE sequential(m.upsample_convs.layers, conv_out.val)

\* One call of a function of models/base.py on obs_dim.
Called(name, result) ==
  /\ call = "none"
  /\ call' = name
  /\ ret' = result
  /\ UNCHANGED <<obs_dim, model, out, bufferVars, dqnVars>>

GetHiddenSize ==
  Called("get_hidden_size_from_obs_dim", get_hidden_size_from_obs_dim(obs_dim))

CreateEncoder ==
  Called("create_encoder_from_obs_dim", create_encoder_from_obs_dim(obs_dim))

CreateDecoder ==
  Called("create_decoder_from_obs_dim", create_decoder_from_obs_dim(obs_dim))

PolicyNetworkInit ==
  \E n_acts \in 1..MaxActs :
    Called("PolicyNetwork.__init__", PolicyNetwork_init(obs_dim, n_acts))

StatePredictionModelInit ==
  \E n_acts \in 1..MaxActs :
    /\ call = "none"
    /\ call' = "StatePredictionModel.__init__"
    /\ model' = StatePredictionModel_init(obs_dim, n_acts)
    /\ UNCHANGED <<obs_dim, ret, out, bufferVars, dqnVars>>

\* forward(obs, acts) on a constructed model, obs a batch of observations of
\* the constructed shape and acts a batch of action vectors.
StatePredictionModelForward ==
  /\ model.status = "ok"
  /\ \E batch \in 1..MaxBatchSize, width \in 1..MaxActs :
       LET obs  == <<batch>> \o obs_dim
           acts == <<batch, width>>
           y    == StatePredictionModel_forward(model, obs, acts)
       IN  out' = [status |-> y.status,
                   shape  |-> IF y.status = "ok" THEN y.val ELSE <<>>,
                   obs    |-> obs,
                   acts   |-> acts]
  /\ UNCHANGED <<obs_dim, call, ret, model, bufferVars, dqnVars>>

BufferIdle == max_size = 0 /\ buffer = <<>> /\ inserted = <<>> /\ sample_ret = None

InitModels ==
  /\ obs_dim \in Shapes
  /\ call = "none"
  /\ ret = None
  /\ model = None
  /\ out = None
  /\ BufferIdle
  /\ DqnIdle

NextModels ==
  \/ GetHiddenSize
  \/ CreateEncoder
  \/ CreateDecoder
  \/ PolicyNetworkInit
  \/ StatePredictionModelInit
  \/ StatePredictionModelForward

SpecModels == InitModels /\ [][NextModels]_vars

\* The architecture family a factory's network belongs to.
Family(factory) ==
  CASE factory \in {"create_simple_1D_encoder", "create_simple_1D_decoder"} -> "flat"
    [] factory \in {"create_gridworld_encoder", "create_gridworld_decoder"} -> "small-grid"
    [] factory \in {"create_atari_encoder", "create_atari_decoder"} -> "large-grid"

\* The classification policy as the specification states it, for shapes of
\* length 2 or more: family and hidden width, or "unsupported".
StatedPolicy(d) ==
  IF Len(d) = 2
  THEN IF d[1] <= 32 THEN [family |-> "flat", width |-> 32]
       ELSE [family |-> "unsupported", width |-> 0]
  ELSE IF d[2] <= 32 THEN [family |-> "small-grid", width |-> 64]
       ELSE [family |-> "large-grid", width |-> 256]

\* C4: get_hidden_size_from_obs_dim and create_encoder_from_obs_dim make the
\* same decision on every shape of length 2 or more: length 2 with first
\* element <= 32 is flat / 32, length 2 with first element > 32 raises the
\* 'not supported' exception, length >= 3 with second element <= 32 is
\* small-grid / 64, any other shape of length >= 3 is large-grid / 256.
C4_ClassificationPolicy ==
  Len(obs_dim) >= 2 =>
    LET p == StatedPolicy(obs_dim) IN
    /\ call = "get_hidden_size_from_obs_dim" =>
         IF p.family = "unsupported"
         THEN ret.status = "Exception"
         ELSE ret.status = "ok" /\ ret.val = p.width
    /\ call = "create_encoder_from_obs_dim" =>
         IF p.family = "unsupported"
         THEN ret.status = "Exception"
         ELSE ret.status = "ok" /\ Family(ret.val.factory) = p.family

\* The flat boundary (32, 4) gets hidden width 32.
C4_Witness ==
  /\ obs_dim = <<32, 4>>
  /\ call = "get_hidden_size_from_obs_dim"
  /\ ret = Ok(32)

\* C5: on every shape of length 1 or more the classifier either returns a
\* result or raises the 'not supported' exception, never another failure.
C5_ClassifierTotal ==
  call \in {"get_hidden_size_from_obs_dim", "create_encoder_from_obs_dim"} =>
    ret.status \in {"ok", "Exception"}

\* The shapes the classifier accepts that C6 speaks of.
Accepted(d) == (Len(d) = 2 /\ d[1] <= 32) \/ Len(d) = 3

\* The flattened encoder output size by the stated convolution arithmetic.
StatedGridSize(d)  == 16 * ((((d[2] - 4) \div 2) + 1) - 3 + 1) * ((((d[3] - 4) \div 2) + 1) - 3 + 1)
StatedAtariSize(d) == 64 * ((((((d[2] - 5) \div 5) + 1) - 5) \div 5) + 1)
                         * ((((((d[3] - 5) \div 5) + 1) - 5) \div 5) + 1)

\* C6 as stated: for every accepted shape the trial forward pass of the
\* constructed encoder succeeds with a flattened output of size >= 1.
C6_EncoderOutputNonEmpty ==
  (call = "PolicyNetwork.__init__" /\ Accepted(obs_dim)) =>
    ret.status = "ok" /\ ret.encoder_output_size >= 1

\* C6 amended: flat shapes give 32; a small-grid shape (C, H, W) with H >= 8
\* and W >= 8 gives 16 * h * w >= 1 and a large-grid shape with W >= 25 gives
\* 64 * h * w >= 1, h and w by out = floor((in - kernel) / stride) + 1 through
\* the two convolutions; an accepted shape with a smaller spatial dimension
\* makes the trial forward pass raise.
C6_EncoderOutputSize ==
  (call = "PolicyNetwork.__init__" /\ Accepted(obs_dim)) =>
    IF Len(obs_dim) = 2
    THEN ret.status = "ok" /\ ret.encoder_output_size = 32
    ELSE IF obs_dim[2] <= 32
    THEN IF obs_dim[2] >= 8 /\ obs_dim[3] >= 8
         THEN /\ ret.status = "ok"
              /\ ret.encoder_output_size = StatedGridSize(obs_dim)
              /\ ret.encoder_output_size >= 1
         ELSE ret.status = "RuntimeError"
    ELSE IF obs_dim[3] >= 25
         THEN /\ ret.status = "ok"
              /\ ret.encoder_output_size = StatedAtariSize(obs_dim)
              /\ ret.encoder_output_size >= 1
         ELSE ret.status = "RuntimeError"

\* The 1x20x20 gridworld encodes to 16 * 7 * 7 values.
C6_Witness ==
  /\ obs_dim = <<1, 20, 20>>
  /\ call = "PolicyNetwork.__init__"
  /\ ret.status = "ok"
  /\ ret.encoder_output_size = 784

\* C7: create_decoder_from_obs_dim fails for exactly the shapes for which
\* create_encoder_from_obs_dim fails, and otherwise returns the decoder of the
\* encoder's architecture family.
C7_DecoderMirrorsEncoder ==
  call = "create_decoder_from_obs_dim" =>
    LET enc == create_encoder_from_obs_dim(obs_dim) IN
    /\ (ret.status = "ok") <=> (enc.status = "ok")
    /\ ret.status = "ok" => Family(ret.val.factory) = Family(enc.val.factory)

\* C8: forward(obs, acts) of a constructed StatePredictionModel, obs of shape
\* (B, *S) and acts of shape (B, n_acts), returns a prediction of shape (B, *S).
C8_RoundTripShape ==
  (out.status # "none" /\ out.acts[2] = model.n_acts) =>
    out.status = "ok" /\ out.shape = out.obs

\* C9: a StatePredictionModel whose constructor returned normally never raises
\* a dimension error in a later forward(obs, acts) on obs of its shape.
C9_FailFast ==
  (model.status = "ok" /\ out.status # "none") => out.status = "ok"

(***************************************************************************)
(*          DDDQNNetwork: final layers, _init_weights and forward          *)
(***************************************************************************)

\* Bounds of the dueling-Q model.
MaxHidden == 1   \* largest hidden_size given to the constructor
FracBits  == 4   \* fractional bits of the arithmetic

\* The numbers of actions a DDDQNNetwork is constructed for.
ActionCounts == {1, 2, 3}

\* Values a parameter of a final layer takes, and values of a hidden
\* activation (an output of the ReLU in front of a final layer).
ParamVals == {0, 1}
ActVals   == {0, 1}

\* float32 is abstracted to binary fixed point: a tensor entry is an integer
\* number of quanta of 2^-FracBits.  Sums, differences and products of the
\* small integers used here are exact in both arithmetics; a quotient is
\* rounded to the nearest representable value, ties to even, in both.
RECURSIVE Pow2(_)
Pow2(n) == IF n = 0 THEN 1 ELSE 2 * Pow2(n - 1)
Quanta(i) == i * Pow2(FracBits)

RoundDiv(a, n) ==
  LET q == a \div n
      r == a - q * n
  IN  IF 2 * r < n THEN q
      ELSE IF 2 * r > n THEN q + 1
      ELSE IF q % 2 = 0 THEN q ELSE q + 1

Dot(w, h) == SeqSum([i \in 1..Len(w) |-> w[i] * h[i]])

\* The parameters of value_layers[-1] = nn.Linear(hidden_size, 1) and
\* advantage_layers[-1] = nn.Linear(hidden_size, n_acts).
Params(n_acts, hidden_size) ==
  [value_w : [1..hidden_size -> ParamVals],
   value_b : ParamVals,
   adv_w   : [1..n_acts -> [1..hidden_size -> ParamVals]],
   adv_b   : [1..n_acts -> ParamVals]]

\* Mutant of _init_weights: the bias of the advantage head is not zeroed.
_init_weights_keeps_adv_bias(p) ==
  [value_w |-> [i \in DOMAIN p.value_w |-> 0],
   value_b |-> 0,
   adv_w   |-> [a \in DOMAIN p.adv_w |-> [i \in DOMAIN p.adv_w[a] |-> 0]],
   adv_b   |-> p.adv_b]

\* DDDQNNetwork._init_weights: fill_(0) on weight and bias of both final layers.
_init_weights(p) ==
  [value_w |-> [i \in DOMAIN p.value_w |-> 0],
   value_b |-> 0,
   adv_w   |-> [a \in DOMAIN p.adv_w |-> [i \in DOMAIN p.adv_w[a] |-> 0]],
   adv_b   |-> [a \in DOMAIN p.adv_b |-> 0]]

\* DDDQNNetwork.__init__: nn.Linear draws the parameters (any values, here
\* drawn), then _init_weights overwrites them.
DDDQNNetwork_init(n_acts, hidden_size, drawn) ==
  [status |-> "ok", n_acts |-> n_acts, hidden_size |-> hidden_size,
   params |-> _init_weights(drawn), updated |-> FALSE]

\* DDDQNNetwork.forward from the inputs of the two final layers on: hv and ha
\* are the hidden activations of the value and of the advantage head.
DDDQNNetwork_forward(nw, hv, ha) ==
  LET values     == Quanta(Dot(nw.params.value_w, hv) + nw.params.value_b)
      advantages == [a \in 1..nw.n_acts |->
                       Quanta(Dot(nw.params.adv_w[a], ha) + nw.params.adv_b[a])]
      advantage_means == RoundDiv(SeqSum(advantages), nw.n_acts)
  IN  [status |-> "ok", hv |-> hv, ha |-> ha,
       values |-> values,
       advantages |-> advantages,
       advantage_means |-> advantage_means,
       qs |-> [a \in 1..nw.n_acts |-> values + (advantages[a] - advantage_means)]]

DDDQNForward ==
  /\ \E hv \in [1..net.hidden_size -> ActVals], ha \in [1..net.hidden_size -> ActVals] :
       qs_ret' = DDDQNNetwork_forward(net, hv, ha)
  /\ UNCHANGED <<net, bufferVars, modelVars>>

\* A parameter update of the training loop: an in-place write of one entry of
\* one parameter tensor of a final layer.
ParameterUpdate ==
  /\ \E v \in ParamVals :
       \/ \E i \in 1..net.hidden_size :
            net' = [net EXCEPT !.params.value_w[i] = v, !.updated = TRUE]
       \/ net' = [net EXCEPT !.params.value_b = v, !.updated = TRUE]
       \/ \E a \in 1..net.n_acts, i \in 1..net.hidden_size :
            net' = [net EXCEPT !.params.adv_w[a][i] = v, !.updated = TRUE]
       \/ \E a \in 1..net.n_acts :
            net' = [net EXCEPT !.params.adv_b[a] = v, !.updated = TRUE]
  /\ qs_ret' = None
  /\ UNCHANGED <<bufferVars, modelVars>>

InitDDDQN ==
  /\ \E n_acts \in ActionCounts, hidden_size \in 1..MaxHidden :
       \E drawn \in Params(n_acts, hidden_size) :
         net = DDDQNNetwork_init(n_acts, hidden_size, drawn)
  /\ qs_ret = None
  /\ BufferIdle
  /\ ModelIdle

NextDDDQN == DDDQNForward \/ ParameterUpdate

SpecDDDQN == InitDDDQN /\ [][NextDDDQN]_vars

\* Sum over the actions of Q[a] - value, in quanta.
Residual == SeqSum([a \in 1..net.n_acts |-> qs_ret.qs[a] - qs_ret.values])

AllZero(r) ==
  /\ r.values = 0
  /\ r.advantage_means = 0
  /\ \A a \in 1..net.n_acts : r.advantages[a] = 0 /\ r.qs[a] = 0

====
